---- MODULE Spec2Model ----
(***************************************************************************)
(* Model of the Socket.IO chat relay of backend/server.js together with    *)
(* the Mongoose schemas (models/User.js, models/Message.js) and the typing *)
(* listeners of the chat page.                                             *)
(*                                                                         *)
(* Every `await` on a persistence call is a suspension point: the call     *)
(* takes effect in the store in one step (...Eff) and the handler's        *)
(* continuation runs in a later step (...Resume); steps of other handlers  *)
(* may run in between. Every received event starts a handler of its own,   *)
(* also while an earlier handler of the same socket and event is running.  *)
(*                                                                         *)
(* A typing or stopTyping packet emitted by the server is in flight until  *)
(* the page's listener runs; it is lost when the socket has closed first.  *)
(*                                                                         *)
(* Strings are sequences of one-character strings so that String.trim and  *)
(* the schema's `trim: true` are computed, not assumed.                    *)
(***************************************************************************)
EXTENDS Integers, Sequences, FiniteSets, TLC

VARIABLES
    users,        \* User collection: sequence of documents in insertion order
    messages,     \* Message collection: sequence of documents in insertion order
    clock,        \* the server's clock (Date.now) when it was last read
    rooms,        \* Socket.IO adapter: connection -> rooms it is enrolled in
    connected,    \* connection -> socket still connected
    joinH,        \* per received event: the joinRoom handler it started
    chatH,        \* per received event: the chat-message handler it started
    sigH,         \* per received event: the typing / stopTyping handler it started
    discH,        \* per connection: the disconnect handler
    typingUsers,  \* chat page state: connection -> usernames shown as typing
    inbox,        \* connection -> typing / stopTyping packets emitted to it, in flight
    me,           \* chat page state: connection -> the page's own username
    log,          \* history: store writes and emitted events, in order
    events,       \* history: client events in the order the server received them
    nfail         \* number of persistence calls that failed for an external reason

vars == <<users, messages, clock, rooms, connected, joinH, chatH, sigH, discH,
          typingUsers, inbox, me, log, events, nfail>>

----------------------------------------------------------------------------
(* Bounds *)

MaxEvents == 2

MaxFailures == 1

(* Program constant: .limit(50) of the history query *)
HistoryLimit == 50

----------------------------------------------------------------------------
(* Values *)

Conns == {"c1", "c2", "c3"}

Signals == {"typing", "stopTyping"}

Undefined == <<"undefined">>

Space == " "

ServerName == <<"Server">>

RoomX == <<"X">>

RoomY == <<"Y">>

NameA == <<"a">>

NameB == <<"b">>

Blank == <<Space>>

PaddedB == <<Space, "b", Space>>

(* a truthy payload that is not a string (a number, an object): it has no
   trim method *)
NonString == <<"not a string">>

(* the { username, room } payloads a client may put in joinRoom:
   a field missing, empty or blank, and plain or padded usernames *)
JoinInputs ==
    {<<Undefined, RoomX>>, <<NameA, <<>>>>, <<Blank, RoomX>>, <<NameA, Blank>>,
     <<NameA, RoomX>>, <<PaddedB, RoomX>>, <<PaddedB, RoomY>>}

(* the texts a client may put in chat-message: missing, blank, padded, plain,
   and a value that is not a string *)
RawTexts == {Undefined, Blank, <<Space, "h", Space>>, <<"h", "i">>, NonString}

----------------------------------------------------------------------------
(* JavaScript helpers *)

Truthy(s) == s # Undefined /\ Len(s) > 0

OrEmpty(s) == IF Truthy(s) THEN s ELSE <<>>

RECURSIVE TrimStart(_)
TrimStart(s) ==
    IF Len(s) > 0 /\ Head(s) = Space THEN TrimStart(Tail(s)) ELSE s

RECURSIVE TrimEnd(_)
TrimEnd(s) ==
    IF Len(s) > 0 /\ s[Len(s)] = Space THEN TrimEnd(SubSeq(s, 1, Len(s) - 1)) ELSE s

Trim(s) == TrimEnd(TrimStart(s))

Reverse(s) == [i \in 1..Len(s) |-> s[Len(s) + 1 - i]]

Take(s, n) == SubSeq(s, 1, IF Len(s) < n THEN Len(s) ELSE n)

----------------------------------------------------------------------------
(* Mongoose schemas and queries *)

(* UserSchema: username is trimmed by its setter; room and socketId are kept *)
UserDoc(sid, username, room) ==
    [socketId |-> sid, username |-> Trim(username), room |-> room]

(* `required: true` on a String path rejects the empty string *)
UserValid(doc) == doc.username # <<>> /\ doc.room # <<>>

(* mutant: socketId without its unique index *)
UserNotUnique(doc) == doc.socketId \in Conns

(* `unique: true` on socketId *)
UserUnique(doc) == \A i \in 1..Len(users) : users[i].socketId # doc.socketId

(* MessageSchema: username is trimmed; text and room are kept; createdAt by timestamps *)
MessageDoc(username, room, text, at) ==
    [username |-> Trim(username), room |-> room, text |-> text, createdAt |-> at]

MessageValid(doc) == doc.username # <<>> /\ doc.room # <<>> /\ doc.text # <<>>

(* mutant: the lookup ignores the socket id *)
FindAnyUser(sid) == SubSeq(users, 1, IF Len(users) > 0 THEN 1 ELSE 0)

(* User.findOne({ socketId }): a sequence of zero or one documents *)
FindOneUser(sid) == SelectSeq(users, LAMBDA u : u.socketId = sid)

(* User.findOneAndDelete({ socketId }): the collection without the document *)
DeleteUser(sid) == SelectSeq(users, LAMBDA u : u.socketId # sid)

(* User.find({ room }) *)
FindUsers(room) == SelectSeq(users, LAMBDA u : u.room = room)

(* the positions of the documents that share their createdAt with another one *)
Ties(s) ==
    {k \in 1..Len(s) : \E j \in 1..Len(s) : j # k /\ s[j].createdAt = s[k].createdAt}

(* the store returns documents of equal sort key in any order: every ranking of
   the tied documents *)
TieOrders(s) ==
    {p \in [Ties(s) -> 1..Cardinality(Ties(s))] :
        \A j, k \in Ties(s) : p[j] = p[k] => j = k}

(* document j sorts before document k: the newer one first, tied ones as ranked *)
NewerFirst(s, p, j, k) ==
    \/ s[j].createdAt > s[k].createdAt
    \/ s[j].createdAt = s[k].createdAt /\ j # k /\ p[j] < p[k]

(* .sort({ createdAt: -1 }) under one ranking of the ties: each document goes
   to the position given by the number of documents that sort before it *)
SortNewestFirst(s, p) ==
    LET before == SubSeq([k \in 1..Len(s) |->
                             Cardinality({j \in 1..Len(s) : NewerFirst(s, p, j, k)})],
                         1, Len(s))
    IN  [i \in 1..Len(s) |-> s[CHOOSE k \in 1..Len(s) : before[k] = i - 1]]

(* mutant: the oldest messages instead of the newest *)
FindOldest(room) ==
    {Reverse(Take(SelectSeq(messages, LAMBDA m : m.room = room), HistoryLimit))}

(* Message.find({ room }).sort({ createdAt: -1 }).limit(50): the results the
   store may return *)
FindRecent(room) ==
    LET R == SelectSeq(messages, LAMBDA m : m.room = room)
    IN  {Take(SortNewestFirst(R, p), HistoryLimit) : p \in TieOrders(R)}

(* usersInRoom.map((u) => ({ username: u.username })) *)
RoomUsersPayload(found) == [i \in 1..Len(found) |-> found[i].username]

----------------------------------------------------------------------------
(* Socket.IO emission *)

NoSid == ""

ToSocket(sid) == [mode |-> "socket", room |-> <<>>, sid |-> sid]

ToOthers(sid, room) == [mode |-> "others", room |-> room, sid |-> sid]

ToRoom(room) == [mode |-> "room", room |-> room, sid |-> NoSid]

NoAddr == [mode |-> "none", room |-> <<>>, sid |-> NoSid]

(* mutant: a room reaches every connected socket *)
GroupAll(room) == {d \in Conns : connected[d]}

(* the connected sockets enrolled in a room *)
Group(room) == {d \in Conns : connected[d] /\ room \in rooms[d]}

(* who receives: socket.emit, socket.broadcast.to(room).emit, io.to(room).emit *)
Targets(addr) ==
    CASE addr.mode = "socket" -> IF connected[addr.sid] THEN {addr.sid} ELSE {}
      [] addr.mode = "others" -> Group(addr.room) \ {addr.sid}
      [] addr.mode = "room"   -> Group(addr.room)
      [] OTHER                -> {}

Emit(hid, ev, addr, msgs, names) ==
    [hid |-> hid, ev |-> ev, addr |-> addr, to |-> Targets(addr),
     grp |-> Group(addr.room), msgs |-> msgs, names |-> names]

(* a store write, recorded in the history *)
Wrote(hid, ev, doc) ==
    [hid |-> hid, ev |-> ev, addr |-> NoAddr, to |-> {}, grp |-> {},
     msgs |-> <<doc>>, names |-> <<>>]

(* the times the server may read when the time it read last was t: t again,
   or a later one *)
Later(t) == {t, t + 1}

(* new Date() *)
Now == Later(clock)

(* serverMessage(text), called at the time `at` *)
serverMessage(text, at) == [username |-> ServerName, text |-> text, createdAt |-> at]

Notice(hid, addr, text, at) ==
    Emit(hid, "message", addr, <<serverMessage(text, at)>>, <<>>)

RequiredText == <<"Username and room are required.">>

WelcomeText(room, username) == <<"Welcome to ">> \o room \o <<", ">> \o username \o <<"!">>

JoinedText(username) == username \o <<" has joined the chat.">>

JoinFailedText == <<"Failed to join room. Please try again.">>

SendFailedText == <<"Failed to send message.">>

LeftText(username) == username \o <<" has left the chat.">>

(* emitRoomUsers, the part after its await *)
RoomUsersEvent(hid, room, found) ==
    Emit(hid, "roomUsers", ToRoom(room), <<>>, RoomUsersPayload(found))

----------------------------------------------------------------------------
(* Chat page listeners *)

(* socket.on('typing') and socket.on('stopTyping') of the page of connection o *)
OnSignal(o, set, e) ==
    LET who == IF Len(e.names) > 0 THEN e.names[1] ELSE <<>>
    IN  CASE e.ev = "typing" ->
               IF ~Truthy(who) \/ who = me[o] THEN set ELSE set \cup {who}
          [] e.ev = "stopTyping" ->
               IF ~Truthy(who) THEN set ELSE set \ {who}
          [] OTHER -> set

(* the typing / stopTyping packets among the emitted events that go to o *)
SignalsTo(o, es) == SelectSeq(es, LAMBDA e : e.ev \in Signals /\ o \in e.to)

(* emit: the events are recorded in the history and the signals are on their
   way to the pages of their recipients *)
Send(es) ==
    /\ log' = log \o es
    /\ inbox' = [o \in Conns |-> inbox[o] \o SignalsTo(o, es)]

----------------------------------------------------------------------------
(* Handler state *)

(* the ids of the handlers: the position of their event in `events` *)
HandlerIds == 1..MaxEvents

IdleJoin == [pc |-> "idle", username |-> <<>>, room |-> <<>>,
             recent |-> <<>>, found |-> <<>>]

IdleChat == [pc |-> "idle", text |-> <<>>, user |-> <<>>, doc |-> <<>>, saved |-> <<>>]

IdleSig == [pc |-> "idle", user |-> <<>>]

IdleDisc == [pc |-> "idle", hid |-> 0, user |-> <<>>, found |-> <<>>]

DoneDisc == [pc |-> "done", hid |-> 0, user |-> <<>>, found |-> <<>>]

(* the server receives a client event on a connected socket *)
CanReceive(c) ==
    /\ connected[c]
    /\ Len(events) < MaxEvents

Event(c, kind, username, room, text) ==
    [conn |-> c, kind |-> kind, username |-> username, room |-> room, text |-> text]

NextHid == Len(events) + 1

(* a persistence call may be rejected by the store *)
StoreMayFail == nfail < MaxFailures

----------------------------------------------------------------------------
(* Initial states: quiescent configurations the server can be in *)

Fresh == [st |-> "fresh", username |-> Undefined, room |-> <<>>, typing |-> FALSE]

Gone == [st |-> "gone", username |-> Undefined, room |-> <<>>, typing |-> FALSE]

In(username, room) ==
    [st |-> "joined", username |-> username, room |-> room, typing |-> FALSE]

(* joined, and its typing signal has reached the other pages of the room *)
Typing(username, room) ==
    [st |-> "joined", username |-> username, room |-> room, typing |-> TRUE]

SeedRoom(i) == IF i % 5 = 0 THEN RoomY ELSE RoomX

SeedName(i) == IF i % 2 = 0 THEN NameB ELSE NameA

(* createdAt of the seeded messages: the second and third were created in the
   same millisecond, the sixth was stamped after the seventh but stored first *)
SeedStamp(i) ==
    CASE i = 3 -> 2
      [] i = 6 -> 7
      [] i = 7 -> 6
      [] OTHER -> i

(* a store of n messages persisted earlier *)
SeedStore(n) ==
    [i \in 1..n |-> MessageDoc(SeedName(i), SeedRoom(i), <<"h">>, SeedStamp(i))]

Setup(cfg, store) ==
    LET S(c) == IF cfg[c].st = "joined"
                THEN <<UserDoc(c, cfg[c].username, cfg[c].room)>> ELSE <<>>
    IN  /\ users = S("c1") \o S("c2") \o S("c3")
        /\ messages = store
        /\ clock = Len(store)
        /\ rooms = [c \in Conns |-> IF cfg[c].st = "joined" THEN {cfg[c].room} ELSE {}]
        /\ connected = [c \in Conns |-> cfg[c].st # "gone"]
        /\ joinH = [h \in HandlerIds |-> IdleJoin]
        /\ chatH = [h \in HandlerIds |-> IdleChat]
        /\ sigH = [h \in HandlerIds |-> IdleSig]
        /\ discH = [c \in Conns |-> IF cfg[c].st = "gone" THEN DoneDisc ELSE IdleDisc]
        /\ typingUsers = [o \in Conns |->
               {cfg[c].username : c \in {d \in Conns \ {o} :
                    /\ cfg[o].st = "joined" /\ cfg[d].st = "joined" /\ cfg[d].typing
                    /\ cfg[d].room = cfg[o].room /\ cfg[d].username # cfg[o].username}}]
        /\ inbox = [c \in Conns |-> <<>>]
        /\ me = [c \in Conns |-> cfg[c].username]
        /\ log = <<>>
        /\ events = <<>>
        /\ nfail = 0

Configs ==
    {[c1 |-> a, c2 |-> b, c3 |-> Gone] :
        a \in {Fresh, In(NameA, RoomX)},
        b \in {Fresh, In(NameA, RoomX), In(NameB, RoomX), Typing(NameB, RoomX),
               In(NameB, RoomY)}}

Init == \E cfg \in Configs : Setup(cfg, SeedStore(2))

----------------------------------------------------------------------------
(* joinRoom: h is the id of the handler, events[h] the event that started it *)

(* mutant: the socket is enrolled although it has disconnected *)
socketJoinAnyway(c, room) == [rooms EXCEPT ![c] = @ \cup {room}]

(* socket.join(room); a socket that has disconnected no longer joins rooms *)
socketJoin(c, room) ==
    [rooms EXCEPT ![c] = IF connected[c] THEN @ \cup {room} ELSE @]

(* a new handler runs up to its first await *)
JoinRecv(c, username, room) ==
    /\ CanReceive(c)
    /\ events' = Append(events, Event(c, "joinRoom", username, room, <<>>))
    /\ me' = [me EXCEPT ![c] = IF @ = Undefined THEN username ELSE @]
    /\ IF ~Truthy(username) \/ ~Truthy(room)
       THEN /\ \E at \in Now :
                  /\ clock' = at
                  /\ Send(<<Notice(NextHid, ToSocket(c), RequiredText, at)>>)
            /\ UNCHANGED joinH
       ELSE /\ joinH' = [joinH EXCEPT ![NextHid] = [IdleJoin EXCEPT !.pc = "create",
                            !.username = username, !.room = room]]
            /\ UNCHANGED <<clock, log, inbox>>
    /\ UNCHANGED <<users, messages, rooms, connected, chatH, sigH, discH,
                   typingUsers, nfail>>

(* User.create({ socketId, username, room }) in the store *)
JoinCreateEff(h) ==
    LET doc == UserDoc(events[h].conn, joinH[h].username, joinH[h].room)
    IN  /\ joinH[h].pc = "create"
        /\ \/ /\ UserValid(doc) /\ UserUnique(doc)
              /\ users' = Append(users, doc)
              /\ log' = Append(log, Wrote(h, "User.create", doc))
              /\ joinH' = [joinH EXCEPT ![h].pc = "create_ok"]
              /\ UNCHANGED nfail
           \/ /\ ~(UserValid(doc) /\ UserUnique(doc))
              /\ joinH' = [joinH EXCEPT ![h].pc = "create_err"]
              /\ UNCHANGED <<users, log, nfail>>
           \/ /\ StoreMayFail
              /\ nfail' = nfail + 1
              /\ joinH' = [joinH EXCEPT ![h].pc = "create_err"]
              /\ UNCHANGED <<users, log>>
        /\ UNCHANGED <<messages, clock, rooms, connected, chatH, sigH, discH,
                       typingUsers, inbox, me, events>>

(* the catch block of joinRoom *)
JoinCatch(h) ==
    /\ \E at \in Now :
          /\ clock' = at
          /\ Send(<<Notice(h, ToSocket(events[h].conn), JoinFailedText, at)>>)
    /\ joinH' = [joinH EXCEPT ![h] = IdleJoin]

(* after await User.create: socket.join(room), then Message.find is issued *)
JoinCreateResume(h) ==
    /\ joinH[h].pc \in {"create_ok", "create_err"}
    /\ IF joinH[h].pc = "create_ok"
       THEN /\ rooms' = socketJoin(events[h].conn, joinH[h].room)
            /\ joinH' = [joinH EXCEPT ![h].pc = "find"]
            /\ UNCHANGED <<clock, log, inbox>>
       ELSE /\ JoinCatch(h)
            /\ UNCHANGED rooms
    /\ UNCHANGED <<users, messages, connected, chatH, sigH, discH,
                   typingUsers, me, events, nfail>>

(* Message.find({ room }).sort({ createdAt: -1 }).limit(50).lean() in the store *)
JoinFindEff(h) ==
    /\ joinH[h].pc = "find"
    /\ \/ /\ \E recent \in FindRecent(joinH[h].room) :
                joinH' = [joinH EXCEPT ![h].pc = "find_ok", ![h].recent = recent]
          /\ UNCHANGED nfail
       \/ /\ StoreMayFail
          /\ nfail' = nfail + 1
          /\ joinH' = [joinH EXCEPT ![h].pc = "find_err"]
    /\ UNCHANGED <<users, messages, clock, rooms, connected, chatH, sigH, discH,
                   typingUsers, inbox, me, log, events>>

(* mutant: the welcome is sent before the history *)
JoinEmitsWelcomeFirst(h, at, at2) ==
    LET c == events[h].conn
        j == joinH[h]
    IN  <<Notice(h, ToSocket(c), WelcomeText(j.room, j.username), at),
          Emit(h, "messageHistory", ToSocket(c), Reverse(j.recent), <<>>),
          Notice(h, ToOthers(c, j.room), JoinedText(j.username), at2)>>

(* steps 3-5 of joinRoom: history (recent.reverse()) and welcome to the joiner,
   the join notice to the others of the room; the two notices are stamped by
   two calls of serverMessage, at the times at and at2 *)
JoinEmits(h, at, at2) ==
    LET c == events[h].conn
        j == joinH[h]
    IN  <<Emit(h, "messageHistory", ToSocket(c), Reverse(j.recent), <<>>),
          Notice(h, ToSocket(c), WelcomeText(j.room, j.username), at),
          Notice(h, ToOthers(c, j.room), JoinedText(j.username), at2)>>

(* after await Message.find: the three emits; then emitRoomUsers issues User.find *)
JoinFindResume(h) ==
    /\ joinH[h].pc \in {"find_ok", "find_err"}
    /\ IF joinH[h].pc = "find_ok"
       THEN /\ \E at \in Now : \E at2 \in Later(at) :
                  /\ clock' = at2
                  /\ Send(JoinEmits(h, at, at2))
            /\ joinH' = [joinH EXCEPT ![h].pc = "roster", ![h].recent = <<>>]
       ELSE JoinCatch(h)
    /\ UNCHANGED <<users, messages, rooms, connected, chatH, sigH, discH,
                   typingUsers, me, events, nfail>>

(* User.find({ room }).lean() of emitRoomUsers in the store *)
JoinRosterEff(h) ==
    /\ joinH[h].pc = "roster"
    /\ \/ /\ joinH' = [joinH EXCEPT ![h].pc = "roster_ok",
                                    ![h].found = FindUsers(joinH[h].room)]
          /\ UNCHANGED nfail
       \/ /\ StoreMayFail
          /\ nfail' = nfail + 1
          /\ joinH' = [joinH EXCEPT ![h].pc = "roster_err"]
    /\ UNCHANGED <<users, messages, clock, rooms, connected, chatH, sigH, discH,
                   typingUsers, inbox, me, log, events>>

(* io.to(room).emit('roomUsers', ...), and the handler returns *)
JoinRosterResume(h) ==
    /\ joinH[h].pc \in {"roster_ok", "roster_err"}
    /\ IF joinH[h].pc = "roster_ok"
       THEN /\ Send(<<RoomUsersEvent(h, joinH[h].room, joinH[h].found)>>)
            /\ joinH' = [joinH EXCEPT ![h] = IdleJoin]
            /\ UNCHANGED clock
       ELSE JoinCatch(h)
    /\ UNCHANGED <<users, messages, rooms, connected, chatH, sigH, discH,
                   typingUsers, me, events, nfail>>

----------------------------------------------------------------------------
(* chat-message *)

(* mutant: only the leading spaces are removed *)
TrimmedStart(text) == TrimStart(OrEmpty(text))

(* (text || '').trim() *)
Trimmed(text) == Trim(OrEmpty(text))

(* mutant: the failure notice goes to the whole room *)
ChatCatchToRoom(h, c) ==
    /\ \E at \in Now :
          /\ clock' = at
          /\ Send(<<Notice(h, ToRoom(RoomX), SendFailedText, at)>>)
    /\ chatH' = [chatH EXCEPT ![h] = IdleChat]

(* the catch block of chat-message, in handler h of connection c *)
ChatCatch(h, c) ==
    /\ \E at \in Now :
          /\ clock' = at
          /\ Send(<<Notice(h, ToSocket(c), SendFailedText, at)>>)
    /\ chatH' = [chatH EXCEPT ![h] = IdleChat]

(* a new handler runs up to its first await; (text || '').trim() throws a
   TypeError when text is truthy and has no trim method, and the catch block
   answers *)
ChatRecv(c, text) ==
    /\ CanReceive(c)
    /\ events' = Append(events, Event(c, "chat-message", <<>>, <<>>, text))
    /\ IF text = NonString
       THEN ChatCatch(NextHid, c)
       ELSE /\ IF ~Truthy(Trimmed(text))
               THEN UNCHANGED chatH
               ELSE chatH' = [chatH EXCEPT ![NextHid] = [IdleChat EXCEPT !.pc = "lookup",
                                 !.text = Trimmed(text)]]
            /\ UNCHANGED <<clock, log, inbox>>
    /\ UNCHANGED <<users, messages, rooms, connected, joinH, sigH, discH,
                   typingUsers, me, nfail>>

(* User.findOne({ socketId }) in the store *)
ChatLookupEff(h) ==
    /\ chatH[h].pc = "lookup"
    /\ \/ /\ chatH' = [chatH EXCEPT ![h].pc = "lookup_ok",
                                    ![h].user = FindOneUser(events[h].conn)]
          /\ UNCHANGED nfail
       \/ /\ StoreMayFail
          /\ nfail' = nfail + 1
          /\ chatH' = [chatH EXCEPT ![h].pc = "lookup_err"]
    /\ UNCHANGED <<users, messages, clock, rooms, connected, joinH, sigH, discH,
                   typingUsers, inbox, me, log, events>>

(* if (!user) return; otherwise Message.create({ username, room, text }) is
   called: the document gets its createdAt in the server, at this call *)
ChatLookupResume(h) ==
    LET ch == chatH[h]
    IN  /\ ch.pc \in {"lookup_ok", "lookup_err"}
        /\ IF ch.pc = "lookup_err"
           THEN ChatCatch(h, events[h].conn)
           ELSE IF Len(ch.user) = 0
           THEN /\ chatH' = [chatH EXCEPT ![h] = IdleChat]
                /\ UNCHANGED <<clock, log, inbox>>
           ELSE /\ \E at \in Now :
                      /\ clock' = at
                      /\ chatH' = [chatH EXCEPT ![h].pc = "save",
                            ![h].doc = <<MessageDoc(ch.user[1].username,
                                                    ch.user[1].room, ch.text, at)>>]
                /\ UNCHANGED <<log, inbox>>
        /\ UNCHANGED <<users, messages, rooms, connected, joinH, sigH, discH,
                       typingUsers, me, events, nfail>>

(* the insert of Message.create in the store *)
ChatSaveEff(h) ==
    LET doc == chatH[h].doc[1]
    IN  /\ chatH[h].pc = "save"
        /\ \/ /\ MessageValid(doc)
              /\ messages' = Append(messages, doc)
              /\ log' = Append(log, Wrote(h, "Message.create", doc))
              /\ chatH' = [chatH EXCEPT ![h].pc = "save_ok", ![h].saved = <<doc>>]
              /\ UNCHANGED nfail
           \/ /\ ~MessageValid(doc)
              /\ chatH' = [chatH EXCEPT ![h].pc = "save_err"]
              /\ UNCHANGED <<messages, log, nfail>>
           \/ /\ StoreMayFail
              /\ nfail' = nfail + 1
              /\ chatH' = [chatH EXCEPT ![h].pc = "save_err"]
              /\ UNCHANGED <<messages, log>>
        /\ UNCHANGED <<users, clock, rooms, connected, joinH, sigH, discH,
                       typingUsers, inbox, me, events>>

(* { username: saved.username, text: saved.text, createdAt: saved.createdAt } *)
MessagePayload(saved) ==
    [username |-> saved.username, text |-> saved.text, createdAt |-> saved.createdAt]

(* mutant: the message goes to the others of the room, not to the sender *)
ChatBroadcastOthers(h) ==
    Emit(h, "message", ToOthers(events[h].conn, chatH[h].user[1].room),
         <<MessagePayload(chatH[h].saved[1])>>, <<>>)

(* io.to(user.room).emit('message', { username, text, createdAt }) *)
ChatBroadcast(h) ==
    Emit(h, "message", ToRoom(chatH[h].user[1].room),
         <<MessagePayload(chatH[h].saved[1])>>, <<>>)

(* after await Message.create: the broadcast, and the handler returns *)
ChatSaveResume(h) ==
    /\ chatH[h].pc \in {"save_ok", "save_err"}
    /\ IF chatH[h].pc = "save_ok"
       THEN /\ Send(<<ChatBroadcast(h)>>)
            /\ chatH' = [chatH EXCEPT ![h] = IdleChat]
            /\ UNCHANGED clock
       ELSE ChatCatch(h, events[h].conn)
    /\ UNCHANGED <<users, messages, rooms, connected, joinH, sigH, discH,
                   typingUsers, me, events, nfail>>

----------------------------------------------------------------------------
(* typing / stopTyping: k is the event name *)

(* a new handler runs up to its await: User.findOne is issued *)
SignalRecv(c, k) ==
    /\ CanReceive(c)
    /\ events' = Append(events, Event(c, k, <<>>, <<>>, <<>>))
    /\ sigH' = [sigH EXCEPT ![NextHid] = [IdleSig EXCEPT !.pc = "lookup"]]
    /\ UNCHANGED <<users, messages, clock, rooms, connected, joinH, chatH, discH,
                   typingUsers, inbox, me, log, nfail>>

(* User.findOne({ socketId }).lean() in the store *)
SignalLookupEff(h) ==
    /\ sigH[h].pc = "lookup"
    /\ \/ /\ sigH' = [sigH EXCEPT ![h].pc = "lookup_ok",
                                  ![h].user = FindOneUser(events[h].conn)]
          /\ UNCHANGED nfail
       \/ /\ StoreMayFail
          /\ nfail' = nfail + 1
          /\ sigH' = [sigH EXCEPT ![h].pc = "lookup_err"]
    /\ UNCHANGED <<users, messages, clock, rooms, connected, joinH, chatH, discH,
                   typingUsers, inbox, me, log, events>>

(* mutant: the signal goes to the whole room, the originator included *)
SignalBroadcastAll(h) ==
    Emit(h, events[h].kind, ToRoom(sigH[h].user[1].room), <<>>,
         <<sigH[h].user[1].username>>)

(* socket.broadcast.to(user.room).emit(k, { username: user.username }) *)
SignalBroadcast(h) ==
    Emit(h, events[h].kind, ToOthers(events[h].conn, sigH[h].user[1].room), <<>>,
         <<sigH[h].user[1].username>>)

(* if (!user) return; the broadcast; errors are only logged *)
SignalResume(h) ==
    /\ sigH[h].pc \in {"lookup_ok", "lookup_err"}
    /\ IF sigH[h].pc = "lookup_ok" /\ Len(sigH[h].user) > 0
       THEN Send(<<SignalBroadcast(h)>>)
       ELSE UNCHANGED <<log, inbox>>
    /\ sigH' = [sigH EXCEPT ![h] = IdleSig]
    /\ UNCHANGED <<users, messages, clock, rooms, connected, joinH, chatH, discH,
                   typingUsers, me, events, nfail>>

----------------------------------------------------------------------------
(* disconnect *)

(* the socket closes: it leaves its rooms, then the handler runs to its await *)
DisconnectRecv(c) ==
    /\ CanReceive(c)
    /\ discH[c].pc = "idle"
    /\ events' = Append(events, Event(c, "disconnect", <<>>, <<>>, <<>>))
    /\ connected' = [connected EXCEPT ![c] = FALSE]
    /\ rooms' = [rooms EXCEPT ![c] = {}]
    /\ discH' = [discH EXCEPT ![c] = [IdleDisc EXCEPT !.pc = "delete", !.hid = NextHid]]
    /\ UNCHANGED <<users, messages, clock, joinH, chatH, sigH, typingUsers, inbox,
                   me, log, nfail>>

(* User.findOneAndDelete({ socketId }) in the store *)
DisconnectDeleteEff(c) ==
    LET h == discH[c]
        hit == FindOneUser(c)
    IN  /\ h.pc = "delete"
        /\ \/ /\ users' = DeleteUser(c)
              /\ log' = IF Len(hit) > 0
                        THEN Append(log, Wrote(h.hid, "User.delete", hit[1])) ELSE log
              /\ discH' = [discH EXCEPT ![c].pc = "delete_ok", ![c].user = hit]
              /\ UNCHANGED nfail
           \/ /\ StoreMayFail
              /\ nfail' = nfail + 1
              /\ discH' = [discH EXCEPT ![c].pc = "delete_err"]
              /\ UNCHANGED <<users, log>>
        /\ UNCHANGED <<messages, clock, rooms, connected, joinH, chatH, sigH,
                       typingUsers, inbox, me, events>>

(* if (!user) return; the 'has left' notice; then emitRoomUsers issues User.find *)
DisconnectDeleteResume(c) ==
    LET h == discH[c]
    IN  /\ h.pc \in {"delete_ok", "delete_err"}
        /\ IF h.pc = "delete_ok" /\ Len(h.user) > 0
           THEN /\ \E at \in Now :
                      /\ clock' = at
                      /\ Send(<<Notice(h.hid, ToRoom(h.user[1].room),
                                       LeftText(h.user[1].username), at)>>)
                /\ discH' = [discH EXCEPT ![c].pc = "roster"]
           ELSE /\ discH' = [discH EXCEPT ![c].pc = "done"]
                /\ UNCHANGED <<clock, log, inbox>>
        /\ UNCHANGED <<users, messages, rooms, connected, joinH, chatH, sigH,
                       typingUsers, me, events, nfail>>

(* User.find({ room }).lean() of emitRoomUsers in the store *)
DisconnectRosterEff(c) ==
    /\ discH[c].pc = "roster"
    /\ \/ /\ discH' = [discH EXCEPT ![c].pc = "roster_ok",
                                    ![c].found = FindUsers(discH[c].user[1].room)]
          /\ UNCHANGED nfail
       \/ /\ StoreMayFail
          /\ nfail' = nfail + 1
          /\ discH' = [discH EXCEPT ![c].pc = "roster_err"]
    /\ UNCHANGED <<users, messages, clock, rooms, connected, joinH, chatH, sigH,
                   typingUsers, inbox, me, log, events>>

(* io.to(room).emit('roomUsers', ...), and the handler returns; errors are only logged *)
DisconnectRosterResume(c) ==
    LET h == discH[c]
    IN  /\ h.pc \in {"roster_ok", "roster_err"}
        /\ IF h.pc = "roster_ok"
           THEN Send(<<RoomUsersEvent(h.hid, h.user[1].room, h.found)>>)
           ELSE UNCHANGED <<log, inbox>>
        /\ discH' = [discH EXCEPT ![c].pc = "done", ![c].found = <<>>]
        /\ UNCHANGED <<users, messages, clock, rooms, connected, joinH, chatH, sigH,
                       typingUsers, me, events, nfail>>

----------------------------------------------------------------------------
(* The network between the server and the pages *)

(* a signal reaches the page of connection o and its listener runs *)
PageReceive(o) ==
    /\ inbox[o] # <<>>
    /\ typingUsers' = [typingUsers EXCEPT ![o] = OnSignal(o, @, Head(inbox[o]))]
    /\ inbox' = [inbox EXCEPT ![o] = Tail(@)]
    /\ UNCHANGED <<users, messages, clock, rooms, connected, joinH, chatH, sigH, discH,
                   me, log, events, nfail>>

(* the connection has dropped before the signal reached the page *)
PacketLost(o) ==
    /\ ~connected[o]
    /\ inbox[o] # <<>>
    /\ inbox' = [inbox EXCEPT ![o] = Tail(@)]
    /\ UNCHANGED <<users, messages, clock, rooms, connected, joinH, chatH, sigH, discH,
                   typingUsers, me, log, events, nfail>>

----------------------------------------------------------------------------
(* Specification *)

Next ==
    \/ \E c \in Conns, in \in JoinInputs : JoinRecv(c, in[1], in[2])
    \/ \E h \in HandlerIds : JoinCreateEff(h)
    \/ \E h \in HandlerIds : JoinCreateResume(h)
    \/ \E h \in HandlerIds : JoinFindEff(h)
    \/ \E h \in HandlerIds : JoinFindResume(h)
    \/ \E h \in HandlerIds : JoinRosterEff(h)
    \/ \E h \in HandlerIds : JoinRosterResume(h)
    \/ \E c \in Conns, text \in RawTexts : ChatRecv(c, text)
    \/ \E h \in HandlerIds : ChatLookupEff(h)
    \/ \E h \in HandlerIds : ChatLookupResume(h)
    \/ \E h \in HandlerIds : ChatSaveEff(h)
    \/ \E h \in HandlerIds : ChatSaveResume(h)
    \/ \E c \in Conns, k \in Signals : SignalRecv(c, k)
    \/ \E h \in HandlerIds : SignalLookupEff(h)
    \/ \E h \in HandlerIds : SignalResume(h)
    \/ \E c \in Conns : DisconnectRecv(c)
    \/ \E c \in Conns : DisconnectDeleteEff(c)
    \/ \E c \in Conns : DisconnectDeleteResume(c)
    \/ \E c \in Conns : DisconnectRosterEff(c)
    \/ \E c \in Conns : DisconnectRosterResume(c)
    \/ \E o \in Conns : PageReceive(o)
    \/ \E o \in Conns : PacketLost(o)

Spec == Init /\ [][Next]_vars

(* the same server over a store that already holds about HistoryLimit messages
   of room X: one fewer, as many, two more (one more is reached by a chat
   message stored during the run) *)
HistorySeeds == {HistoryLimit + 11 + d : d \in {0, 1, 3}}

InitHistory ==
    \E n \in HistorySeeds, a \in {Fresh, In(NameA, RoomX)} :
        Setup([c1 |-> a, c2 |-> In(NameB, RoomX), c3 |-> Gone], SeedStore(n))

SpecHistory == InitHistory /\ [][Next]_vars

----------------------------------------------------------------------------
(* Helpers of the properties *)

HasSession(c) == Len(FindOneUser(c)) > 0

(* every handler of connection c has returned *)
Quiet(c) ==
    /\ \A h \in 1..Len(events) :
          events[h].conn = c =>
              joinH[h].pc = "idle" /\ chatH[h].pc = "idle" /\ sigH[h].pc = "idle"
    /\ discH[c].pc \in {"idle", "done"}

(* the entries of one handler run in a history *)
TraceIn(history, hid) == SelectSeq(history, LAMBDA e : e.hid = hid)

(* what the last step appended to the history *)
Appended == SubSeq(log', Len(log) + 1, Len(log'))

(* every emitted signal has reached its page or was lost *)
AllDelivered == \A o \in Conns : inbox[o] = <<>>

Count(seq, x) == Len(SelectSeq(seq, LAMBDA y : y = x))

(* the history entries of one handler run, in order *)
Trace(hid) == SelectSeq(log, LAMBDA e : e.hid = hid)

Hids == 1..Len(events)

HidsOf(kind) == {h \in Hids : events[h].kind = kind}

----------------------------------------------------------------------------
IsNotice(e, text) ==
    e.ev = "message" /\ e.msgs[1].username = ServerName /\ e.msgs[1].text = text

(* a non-blank string *)
Valid(str) == Truthy(str) /\ \E i \in 1..Len(str) : str[i] # Space

(* handler run hid of connection c has returned *)
Returned(hid) ==
    LET c == events[hid].conn
    IN  /\ joinH[hid].pc = "idle"
        /\ chatH[hid].pc = "idle"
        /\ sigH[hid].pc = "idle"
        /\ (discH[c].hid = hid => discH[c].pc = "done")

----------------------------------------------------------------------------
(* C1: a joinRoom with valid username and room followed by a disconnect of the
   same connection, once both handlers have finished and with no store call
   rejected, leaves no Session for that connection. *)
C1_JoinThenDisconnectNetZero ==
    nfail = 0 =>
        \A c \in Conns :
            (discH[c].pc = "done" /\ Quiet(c)) =>
                \A i \in 1..Len(users) :
                    users[i].socketId = c => ~Valid(users[i].room)

----------------------------------------------------------------------------
JoinFailed(T) ==
    \E i \in 1..Len(T) : IsNotice(T[i], JoinFailedText) \/ IsNotice(T[i], RequiredText)

JoinSteps == <<"User.create", "messageHistory", "message", "message", "roomUsers">>

(* the entries of a join's trace, as far as it got, are the five steps in order,
   addressed as the steps say *)
JoinOrdered(hid) ==
    LET T == Trace(hid)
        c == events[hid].conn
        username == events[hid].username
        room == events[hid].room
    IN  /\ Len(T) <= 5
        /\ \A i \in 1..Len(T) : T[i].ev = JoinSteps[i]
        /\ Len(T) >= 1 => T[1].msgs[1] = [socketId |-> c, username |-> T[1].msgs[1].username,
                                          room |-> room]
        /\ Len(T) >= 2 => T[2].addr = ToSocket(c) /\ T[2].to \subseteq {c}
        /\ Len(T) >= 3 => /\ T[3].addr = ToSocket(c) /\ T[3].to \subseteq {c}
                          /\ IsNotice(T[3], WelcomeText(room, username))
        /\ Len(T) >= 4 => /\ T[4].addr.room = room /\ T[4].to = T[4].grp \ {c}
                          /\ IsNotice(T[4], JoinedText(username))
        /\ Len(T) >= 5 => /\ T[5].addr.room = room /\ T[5].to = T[5].grp
                          /\ (connected[c] => c \in T[5].to)

(* C2: a joinRoom that does not fail performs, in this order and skipping none:
   persist the Session, messageHistory to the joiner, welcome to the joiner,
   'has joined' to the others of the room and not the joiner, roomUsers to the
   whole room including the joiner. *)
C2_JoinStepsInOrder ==
    \A hid \in HidsOf("joinRoom") :
        ~JoinFailed(Trace(hid)) =>
            /\ JoinOrdered(hid)
            /\ Returned(hid) => Len(Trace(hid)) = 5

C2_Witness ==
    \E hid \in HidsOf("joinRoom") :
        LET T == Trace(hid)
        IN  /\ Len(T) = 5 /\ Returned(hid)
            /\ T[4].to # {}
            /\ events[hid].conn \in T[5].to
            /\ Len(T[2].msgs) > 0

----------------------------------------------------------------------------
(* C3: when stopTyping and then chat-message are received on a connection
   (no store call rejected, every emitted signal delivered), every other
   connection that receives the message event and shows the sender as typing
   has received the stopTyping event of that user before the message event. *)
C3_StopTypingBeforeMessage ==
    (nfail = 0 /\ AllDelivered) =>
        \A s \in HidsOf("stopTyping"), m \in HidsOf("chat-message") :
            (s + 1 = m /\ events[s].conn = events[m].conn) =>
                \A j \in 1..Len(log) :
                    (log[j].hid = m /\ log[j].ev = "message") =>
                        \A o \in log[j].to \ {events[m].conn} :
                            \/ log[j].msgs[1].username \notin typingUsers[o]
                            \/ \E i \in 1..(j - 1) :
                                  /\ log[i].hid = s /\ log[i].ev = "stopTyping"
                                  /\ o \in log[i].to

----------------------------------------------------------------------------
(* C4: after the disconnect handler of a connection whose Session it removed
   has finished (no store call rejected, every emitted signal delivered), the
   username of that Session is in the typing set of no remaining connection of
   the room, unless another Session of the room carries the same username. *)
C4_DisconnectClearsTyping ==
    (nfail = 0 /\ AllDelivered) =>
        \A c \in Conns :
            (discH[c].pc = "done" /\ Len(discH[c].user) > 0 /\ Quiet(c)) =>
                LET gone == discH[c].user[1]
                IN  \A o \in Group(gone.room) :
                        (\A i \in 1..Len(users) :
                            ~(users[i].room = gone.room /\ users[i].username = gone.username))
                        => gone.username \notin typingUsers[o]

----------------------------------------------------------------------------
(* C5: a joinRoom that ends with the failure notice has done nothing else: its
   trace is that one unicast notice, with no Session written and nothing sent
   to any other connection. *)
C5_FailedJoinAborted ==
    \A hid \in HidsOf("joinRoom") :
        LET T == Trace(hid)
        IN  (/\ Valid(events[hid].username) /\ Valid(events[hid].room)
             /\ \E i \in 1..Len(T) : IsNotice(T[i], JoinFailedText)) =>
                /\ Len(T) = 1
                /\ T[1].addr = ToSocket(events[hid].conn)

----------------------------------------------------------------------------
(* C6: a connection enrolled in a room's broadcast group has a Session with
   that room. *)
C6_EnrolledHasSession ==
    \A c \in Conns : \A room \in rooms[c] :
        \E i \in 1..Len(users) : users[i].socketId = c /\ users[i].room = room

(* a connection that joined in this run is enrolled, another one's join failed
   at the persistence step *)
C6_Witness ==
    /\ \E hid \in HidsOf("joinRoom") :
          /\ events[hid].room \in rooms[events[hid].conn]
          /\ Len(Trace(hid)) >= 1 /\ Trace(hid)[1].ev = "User.create"
    /\ \E hid \in HidsOf("joinRoom") :
          /\ Valid(events[hid].room) /\ Valid(events[hid].username)
          /\ JoinFailed(Trace(hid))
          /\ rooms[events[hid].conn] = {}

----------------------------------------------------------------------------
(* t is raw without its leading and trailing spaces, stated without Trim *)
Spaces(n) == [i \in 1..n |-> Space]

IsTrimOf(t, raw) ==
    /\ Len(t) > 0 /\ t[1] # Space /\ t[Len(t)] # Space
    /\ \E lead \in 0..Len(raw), trail \in 0..Len(raw) :
          raw = Spaces(lead) \o t \o Spaces(trail)

(* a chat-message text with nothing but spaces, or no text at all *)
IsBlank(raw) == raw = Undefined \/ \A i \in 1..Len(raw) : raw[i] = Space

(* the Message documents written in this run, in order *)
Created == SelectSeq(log, LAMBDA e : e.ev = "Message.create")

(* the store is what it was initially followed by the documents written *)
StoreFollowsLog ==
    /\ Len(Created) <= Len(messages)
    /\ \A i \in 1..Len(Created) :
          messages[Len(messages) - Len(Created) + i] = Created[i].msgs[1]

(* C7: a chat-message with empty or blank text writes nothing and emits
   nothing; every stored message text is non-empty, has no space at its edges,
   and is the raw text sent without its leading and trailing spaces. *)
C7_BlankNeverStored ==
    /\ StoreFollowsLog
    /\ \A hid \in HidsOf("chat-message") : IsBlank(events[hid].text) => Trace(hid) = <<>>
    /\ \A i \in 1..Len(Created) :
          /\ events[Created[i].hid].kind = "chat-message"
          /\ IsTrimOf(Created[i].msgs[1].text, events[Created[i].hid].text)
    /\ \A i \in 1..Len(messages) :
          LET t == messages[i].text
          IN  Len(t) > 0 /\ t[1] # Space /\ t[Len(t)] # Space

(* a blank text was received and dropped, and a padded text was stored *)
C7_Witness ==
    /\ \E hid \in HidsOf("chat-message") :
          events[hid].text = Blank /\ Returned(hid)
    /\ \E i \in 1..Len(Created) :
          /\ events[Created[i].hid].text = <<Space, "h", Space>>
          /\ Created[i].msgs[1].text = <<"h">>

----------------------------------------------------------------------------
ChatFailed(T) == \E i \in 1..Len(T) : IsNotice(T[i], SendFailedText)

(* the connection had its Session during the whole run *)
JoinedThroughout(c) ==
    /\ HasSession(c)
    /\ \A i \in 1..Len(log) :
          log[i].ev = "User.create" => log[i].msgs[1].socketId # c

(* C8: a chat-message with non-blank text from a connection that has a Session
   is persisted once and then broadcast as message {username, text, createdAt}
   of the persisted document to every connection of the Session's room, the
   sender included; no chat message is broadcast without having been persisted. *)
C8_PersistThenBroadcast ==
    /\ StoreFollowsLog
    /\ \A hid \in HidsOf("chat-message") :
          LET T == Trace(hid)
              c == events[hid].conn
          IN  ~ChatFailed(T) =>
                /\ Len(T) <= 2
                /\ Len(T) >= 1 => T[1].ev = "Message.create"
                /\ Len(T) = 2 =>
                      /\ T[2].ev = "message"
                      /\ T[2].addr = ToRoom(T[1].msgs[1].room)
                      /\ T[2].to = T[2].grp
                      /\ T[2].msgs = <<[username |-> T[1].msgs[1].username,
                                        text |-> T[1].msgs[1].text,
                                        createdAt |-> T[1].msgs[1].createdAt]>>
                /\ (Returned(hid) /\ Len(T) >= 1) => Len(T) = 2
                /\ (Returned(hid) /\ ~IsBlank(events[hid].text) /\ nfail = 0
                      /\ JoinedThroughout(c)) =>
                      /\ Len(T) = 2
                      /\ T[1].msgs[1].username = FindOneUser(c)[1].username
                      /\ T[1].msgs[1].room = FindOneUser(c)[1].room
                      /\ connected[c] => c \in T[2].to

(* a message was persisted and broadcast to the sender and another connection *)
C8_Witness ==
    \E hid \in HidsOf("chat-message") :
        LET T == Trace(hid)
        IN  /\ Len(T) = 2 /\ Returned(hid)
            /\ events[hid].conn \in T[2].to
            /\ T[2].to # {events[hid].conn}

----------------------------------------------------------------------------
(* C9: a chat-message whose persistence call is rejected emits exactly one
   notice, unicast to the sender, and writes nothing: no message event, no
   Message document, no Session change. *)
C9_FailedSendUnicast ==
    /\ StoreFollowsLog
    /\ \A hid \in HidsOf("chat-message") :
          LET T == Trace(hid)
          IN  /\ ChatFailed(T) =>
                    /\ Len(T) = 1
                    /\ T[1].addr = ToSocket(events[hid].conn)
                    /\ T[1].to \subseteq {events[hid].conn}
              /\ chatH[hid].pc \in {"lookup_err", "save_err"} => T = <<>>

(* a chat-message with text from a connection that has a Session was answered
   with the failure notice after a rejected store call, and another connection
   of its room got nothing *)
C9_Witness ==
    \E hid \in HidsOf("chat-message") :
        /\ ChatFailed(Trace(hid)) /\ Returned(hid)
        /\ events[hid].text # NonString /\ HasSession(events[hid].conn)
        /\ Trace(hid)[1].to = {events[hid].conn}
        /\ Group(FindOneUser(events[hid].conn)[1].room) # {events[hid].conn}

----------------------------------------------------------------------------
Min(a, b) == IF a < b THEN a ELSE b

(* the messages of a room in a store *)
OfRoom(store, room) == SelectSeq(store, LAMBDA m : m.room = room)

(* oldest first; messages created in the same millisecond in any order *)
Ascending(ms) == \A i \in 1..(Len(ms) - 1) : ms[i].createdAt <= ms[i + 1].createdAt

(* hist holds the min(HistoryLimit, total) most recent messages of R: each as
   often as R at most, and nothing left out is newer than anything in it *)
MostRecent(hist, R) ==
    /\ Len(hist) = Min(HistoryLimit, Len(R))
    /\ \A i \in 1..Len(hist) : Count(hist, hist[i]) <= Count(R, hist[i])
    /\ \A i \in 1..Len(R) :
          Count(hist, R[i]) < Count(R, R[i]) =>
              \A j \in 1..Len(hist) : R[i].createdAt <= hist[j].createdAt

C10_Step ==
    \A h \in HandlerIds :
        /\ (joinH[h].pc = "find" /\ joinH'[h].pc = "find_ok") =>
              /\ MostRecent(Reverse(joinH'[h].recent), OfRoom(messages, joinH[h].room))
              /\ Ascending(Reverse(joinH'[h].recent))
        /\ (joinH[h].pc = "find_ok" /\ joinH'[h].pc = "roster") =>
              LET hist == SelectSeq(Appended, LAMBDA e : e.ev = "messageHistory")
              IN  /\ Len(hist) = 1
                  /\ hist[1].hid = h
                  /\ hist[1].msgs = Reverse(joinH[h].recent)
                  /\ Ascending(hist[1].msgs)
                  /\ \A i \in 1..Len(hist[1].msgs) : hist[1].msgs[i].room = joinH[h].room
                  /\ hist[1].addr = ToSocket(events[h].conn)
                  /\ hist[1].to \subseteq {events[h].conn}
    /\ \A i \in 1..Len(Appended) :
          Appended[i].ev = "messageHistory" =>
              joinH[Appended[i].hid].pc = "find_ok" /\ joinH'[Appended[i].hid].pc = "roster"

(* C10: the messageHistory of a join holds exactly the min(50, total) most
   recent messages of the joined room at the time of the query, oldest first,
   none of another room, and is sent to the joining connection only. *)
C10_HistoryMostRecent == [][C10_Step]_vars

(* a history of exactly HistoryLimit messages was delivered to the joiner of a
   room that holds more; of the two messages created in the same millisecond
   at the cut, one is in it and one is not *)
C10_Witness ==
    \E i \in 1..Len(log) :
        /\ log[i].ev = "messageHistory"
        /\ Len(log[i].msgs) = HistoryLimit
        /\ log[i].to = {events[log[i].hid].conn}
        /\ Len(SelectSeq(log[i].msgs, LAMBDA m : m.createdAt = 2)) = 1
        /\ Len(OfRoom(messages, events[log[i].hid].room)) > HistoryLimit

----------------------------------------------------------------------------
(* the Sessions connection c has had: stored now, or written or deleted in this run *)
SessionsOf(c) ==
    {users[i] : i \in {j \in 1..Len(users) : users[j].socketId = c}}
    \cup {log[i].msgs[1] : i \in {j \in 1..Len(log) :
              log[j].ev \in {"User.create", "User.delete"} /\ log[j].msgs[1].socketId = c}}

HidsOfSignals == HidsOf("typing") \cup HidsOf("stopTyping")

(* C11: a typing or stopTyping event of a connection with a Session is emitted
   once, under its own event name, with the username of that Session, to every
   other connection of the Session's room and never to the originating
   connection. *)
C11_SignalToOthersOnly ==
    \A hid \in HidsOfSignals :
        LET T == Trace(hid)
            c == events[hid].conn
        IN  /\ Len(T) <= 1
            /\ Len(T) = 1 =>
                  /\ T[1].ev = events[hid].kind
                  /\ c \notin T[1].to
                  /\ T[1].to = T[1].grp \ {c}
                  /\ \E doc \in SessionsOf(c) :
                        /\ T[1].names = <<doc.username>>
                        /\ T[1].addr.room = doc.room
                  /\ \A o \in Conns \ {c} :
                        (/\ connected[o] /\ JoinedThroughout(o)
                         /\ FindOneUser(o)[1].room = T[1].addr.room) => o \in T[1].to
            /\ (Returned(hid) /\ nfail = 0 /\ JoinedThroughout(c)) =>
                  /\ Len(T) = 1
                  /\ T[1].names = <<FindOneUser(c)[1].username>>
                  /\ T[1].addr.room = FindOneUser(c)[1].room

(* a typing signal reached another connection of the room while its
   originator was connected and enrolled in that room *)
C11_Witness ==
    \E hid \in HidsOfSignals :
        LET T == Trace(hid)
            c == events[hid].conn
        IN  /\ Len(T) = 1 /\ Returned(hid)
            /\ c \in T[1].grp
            /\ T[1].to # {}

----------------------------------------------------------------------------
(* the same server with three connections in room X, two of them under the
   same username b; the typing signal of c2 has reached the page of c1 *)
SameNameConfig ==
    [c1 |-> In(NameA, RoomX), c2 |-> Typing(NameB, RoomX), c3 |-> In(NameB, RoomX)]

InitSameName == Setup(SameNameConfig, SeedStore(2))

SpecSameName == InitSameName /\ [][Next]_vars

(* the typing set of each page in InitSameName *)
TypingBefore(o) == IF o = "c1" THEN {NameB} ELSE {}

(* the only events of the run are typing then stopTyping of connection c, and
   their two broadcasts are all that has been emitted, in that order, and have
   reached the pages *)
TypingThenStop(c) ==
    /\ Len(events) = 2
    /\ events[1] = Event(c, "typing", <<>>, <<>>, <<>>)
    /\ events[2] = Event(c, "stopTyping", <<>>, <<>>, <<>>)
    /\ Len(log) = 2
    /\ log[1].hid = 1 /\ log[1].ev = "typing"
    /\ log[2].hid = 2 /\ log[2].ev = "stopTyping"
    /\ AllDelivered

(* C12: typing followed by stopTyping of the same user, with no other event
   between, leaves the typing set of every observer of the room as it was
   before the typing event, also when the set already held that username
   because another connection of the same username is typing. *)
C12_TypingStopRestores ==
    \A c \in Conns \ {"c2"} :
        TypingThenStop(c) =>
            \A o \in log[1].to \cap log[2].to : typingUsers[o] = TypingBefore(o)

----------------------------------------------------------------------------
(* C13: a joinRoom whose username or room is missing, empty or blank is
   rejected: all it does is send one error notice to its own connection; it
   writes no Session, never gets to enrol the connection in a room and sends
   nothing to any other connection. *)
C13_InvalidJoinRejected ==
    \A hid \in HidsOf("joinRoom") :
        LET T == Trace(hid)
            c == events[hid].conn
        IN  (~Valid(events[hid].username) \/ ~Valid(events[hid].room)) =>
                /\ Len(T) <= 1
                /\ \A i \in 1..Len(T) :
                      /\ IsNotice(T[i], RequiredText) \/ IsNotice(T[i], JoinFailedText)
                      /\ T[i].addr = ToSocket(c)
                      /\ T[i].to \subseteq {c}
                /\ Returned(hid) => Len(T) = 1
                /\ joinH[hid].pc \in {"idle", "create", "create_err"}

----------------------------------------------------------------------------
AtMostOneSession ==
    \A i, j \in 1..Len(users) : users[i].socketId = users[j].socketId => i = j

C14_Step ==
    /\ AtMostOneSession
    /\ AtMostOneSession'
    /\ \A c \in Conns :
          (HasSession(c) /\ HasSession(c)') => FindOneUser(c)' = FindOneUser(c)

(* C14: the Registry never holds two Sessions of one connection id, and while a
   connection id has a Session no step changes its username or room: a later
   joinRoom on the same connection alters nothing. *)
C14_OneSessionPerConnection == [][C14_Step]_vars

(* a connection that has a Session sent a valid joinRoom with another username
   and room; no store call was rejected, the join has returned, and the stored
   Session is still the first one *)
C14_Witness ==
    \E hid \in HidsOf("joinRoom") :
        LET c == events[hid].conn
        IN  /\ Valid(events[hid].username) /\ Valid(events[hid].room)
            /\ Returned(hid) /\ nfail = 0
            /\ JoinedThroughout(c)
            /\ FindOneUser(c)[1].room # events[hid].room
            /\ FindOneUser(c)[1].username # Trim(events[hid].username)

----------------------------------------------------------------------------
(* C15: a valid joinRoom on a connection that already has a Session, with no
   store call rejected, is not answered with a failure notice, and the
   connection has exactly one Session afterwards. *)
C15_SecondJoinSucceeds ==
    \A hid \in HidsOf("joinRoom") :
        LET c == events[hid].conn
        IN  (/\ Valid(events[hid].username) /\ Valid(events[hid].room)
             /\ Returned(hid) /\ nfail = 0
             /\ JoinedThroughout(c)) =>
                /\ ~JoinFailed(Trace(hid))
                /\ Len(FindOneUser(c)) = 1

----------------------------------------------------------------------------
DisconnectSteps == <<"User.delete", "message", "roomUsers">>

C16_Step ==
    \A c \in Conns :
        LET h == discH[c]
            h2 == discH'[c]
            T == TraceIn(log', h2.hid)
        IN  \* the history of a disconnect is a prefix of remove, notice, roster
            /\ h2.pc # "idle" =>
                  /\ Len(T) <= 3
                  /\ \A i \in 1..Len(T) : T[i].ev = DisconnectSteps[i]
            \* the removal
            /\ (h.pc = "delete" /\ h2.pc = "delete_ok") =>
                  /\ ~HasSession(c)'
                  /\ IF HasSession(c)
                     THEN /\ h2.user = FindOneUser(c)
                          /\ Appended = <<Wrote(h.hid, "User.delete", FindOneUser(c)[1])>>
                     ELSE /\ h2.user = <<>>
                          /\ users' = users /\ log' = log
            \* no Session: the handler ends and nothing is emitted
            /\ (h.pc = "delete_ok" /\ h.user = <<>> /\ h2 # h) =>
                  /\ h2.pc = "done"
                  /\ TraceIn(log', h.hid) = <<>>
                  /\ users' = users
            \* the notice to the connections remaining in the room
            /\ (h.pc = "delete_ok" /\ h.user # <<>> /\ h2 # h) =>
                  /\ h2.pc = "roster"
                  /\ Len(Appended) = 1
                  /\ Appended[1].hid = h.hid
                  /\ IsNotice(Appended[1], LeftText(h.user[1].username))
                  /\ Appended[1].addr = ToRoom(h.user[1].room)
                  /\ Appended[1].to = Group(h.user[1].room)
                  /\ c \notin Appended[1].to
            \* the roster is read after the removal and does not hold the Session
            /\ (h.pc = "roster" /\ h2.pc = "roster_ok") =>
                  /\ h2.found = FindUsers(h.user[1].room)
                  /\ \A i \in 1..Len(h2.found) : h2.found[i].socketId # c
            \* roomUsers to the connections remaining in the room
            /\ (h.pc = "roster_ok" /\ h2 # h) =>
                  /\ h2.pc = "done"
                  /\ Len(Appended) = 1
                  /\ Appended[1].hid = h.hid
                  /\ Appended[1].ev = "roomUsers"
                  /\ Appended[1].names = RoomUsersPayload(h.found)
                  /\ Appended[1].addr = ToRoom(h.user[1].room)
                  /\ Appended[1].to = Group(h.user[1].room)
                  /\ c \notin Appended[1].to
            \* with no store call rejected, a finished disconnect of a connection
            \* that had a Session has done all three
            /\ (h2.pc = "done" /\ h2.hid # 0 /\ h2.user # <<>> /\ nfail' = 0) => Len(T) = 3

(* C16: the disconnect of a connection that has a Session removes the Session,
   then broadcasts the 'has left' notice to the connections remaining in its
   room, then emits roomUsers to them with a roster that does not list the
   Session of the departed connection; the disconnect of a connection without
   a Session emits nothing and leaves the Registry as it is. *)
C16_DisconnectSequence == [][C16_Step]_vars

----------------------------------------------------------------------------
(* the store holds a Session of connection c *)
Registered(c) == \E i \in 1..Len(users) : users[i].socketId = c

(* nothing is written, nothing is emitted, no page changes *)
Silent == UNCHANGED <<users, messages, clock, rooms, log, inbox, typingUsers>>

(* C17: a chat-message, typing or stopTyping event of a connection that has
   no Session (none stored, none written or removed at any time) is silently
   ignored: its handler writes nothing and emits nothing, to no connection,
   the originator included. *)
C17_NoSessionSilent ==
    \A hid \in HidsOf("chat-message") \cup HidsOfSignals :
        SessionsOf(events[hid].conn) = {} => Trace(hid) = <<>>

(* the events of a connection that never had a Session have left no trace,
   but for the notice of the catch block of chat-message *)
NoSessionNoTrace ==
    \A hid \in HidsOf("chat-message") \cup HidsOfSignals :
        (SessionsOf(events[hid].conn) = {} /\ ~ChatFailed(Trace(hid))) => Trace(hid) = <<>>

C17_Step ==
    /\ NoSessionNoTrace
    /\ NoSessionNoTrace'
    /\ \A h \in HandlerIds :
          \* the lookup answers with no document exactly when there is no Session
          /\ (chatH[h].pc = "lookup" /\ chatH'[h].pc = "lookup_ok") =>
                /\ (chatH'[h].user = <<>>) = ~Registered(events[h].conn)
                /\ Silent
          \* chat-message without a Session: the handler returns
          /\ (chatH[h].pc = "lookup_ok" /\ chatH[h].user = <<>> /\ chatH'[h] # chatH[h]) =>
                /\ chatH'[h] = IdleChat
                /\ Silent
          /\ (sigH[h].pc = "lookup" /\ sigH'[h].pc = "lookup_ok") =>
                /\ (sigH'[h].user = <<>>) = ~Registered(events[h].conn)
                /\ Silent
          \* typing / stopTyping without a Session: the handler returns
          /\ (sigH[h].pc = "lookup_ok" /\ sigH[h].user = <<>> /\ sigH'[h] # sigH[h]) =>
                /\ sigH'[h] = IdleSig
                /\ Silent

(* the part of C17 that holds: an event whose handler finds no Session when
   it looks the Registry up returns at once, and apart from the notice of the
   catch block of chat-message nothing is persisted or emitted and the
   Registry stays as it is. *)
C17_NoSessionIgnored == [][C17_Step]_vars

(* a connection that never had a Session sent a chat-message with text and a
   typing signal; both handlers have returned, no store call was rejected *)
C17_Witness ==
    /\ nfail = 0
    /\ \E m \in HidsOf("chat-message"), t \in HidsOfSignals :
          /\ events[m].conn = events[t].conn
          /\ SessionsOf(events[m].conn) = {}
          /\ ~IsBlank(events[m].text)
          /\ Returned(m) /\ Returned(t)
          /\ log = <<>>

----------------------------------------------------------------------------
(* C18: the events of one connection take effect in the order received: a
   chat-message with text or a typing signal received right after a valid
   joinRoom of the same connection, with no store call rejected, is not
   dropped for want of a Session: once its handler has returned it has been
   broadcast. *)
C18_EventsInOrder ==
    nfail = 0 =>
        \A j \in HidsOf("joinRoom"), e \in HidsOf("chat-message") \cup HidsOf("typing") :
            (/\ j + 1 = e /\ events[j].conn = events[e].conn
             /\ Valid(events[j].username) /\ Valid(events[j].room)
             /\ events[e].kind = "chat-message" => ~IsBlank(events[e].text)
             /\ Returned(e)) =>
                \E i \in 1..Len(log) : log[i].hid = e /\ log[i].ev \in {"message", "typing"}

----------------------------------------------------------------------------
(* C19: no handler emits to a single connection that has disconnected: every
   unicast in the history (messageHistory, welcome, error notice) was emitted
   while its socket was connected; and a disconnected connection is enrolled
   in no room. *)
C19_NoUnicastToGone ==
    /\ \A i \in 1..Len(log) :
          log[i].addr.mode = "socket" => log[i].to = {log[i].addr.sid}
    /\ \A c \in Conns : ~connected[c] => rooms[c] = {}

----------------------------------------------------------------------------
(* the same usernames, each as many times *)
SameNames(s, t) ==
    /\ Len(s) = Len(t)
    /\ \A i \in 1..Len(s) : Count(s, s[i]) = Count(t, s[i])

(* the positions of the roomUsers events that reached connection o *)
RostersOf(o) == {i \in 1..Len(log) : log[i].ev = "roomUsers" /\ o \in log[i].to}

Max(S) == CHOOSE m \in S : \A n \in S : n <= m

(* C20: once every handler has returned (no store call rejected, valid joins
   only, one event per connection), the last roomUsers payload received by
   each connection of a room lists exactly the usernames of the Sessions
   registered for that room. *)
C20_RosterConverges ==
    (/\ nfail = 0
     /\ \A c \in Conns : Quiet(c)
     /\ \A hid \in HidsOf("joinRoom") :
           Valid(events[hid].username) /\ Valid(events[hid].room)
     /\ \A h1, h2 \in Hids : events[h1].conn = events[h2].conn => h1 = h2) =>
        \A o \in Conns : \A room \in rooms[o] :
            (connected[o] /\ RostersOf(o) # {}) =>
                LET last == log[Max(RostersOf(o))]
                IN  last.addr.room = room =>
                        SameNames(last.names, RoomUsersPayload(FindUsers(room)))

----------------------------------------------------------------------------
(* the history entries emitted to a room: io.to(room) and socket.broadcast.to(room) *)
IsBroadcast(e) == e.addr.mode \in {"room", "others"}

(* connection c has or had a Session of this room *)
SessionIn(c, room) == \E doc \in SessionsOf(c) : doc.room = room

(* C21: every message, typing, stopTyping and roomUsers event the server
   broadcasts is addressed to the room of a Session of the connection whose
   event caused it, a chat message or signal under that Session's username,
   and reaches only connections that are enrolled in that room and have a
   Session of it; no connection is enrolled in two rooms. *)
C21_RoomIsolation ==
    /\ \A c \in Conns : Cardinality(rooms[c]) <= 1
    /\ \A i \in 1..Len(log) :
          LET e == log[i]
              c == events[e.hid].conn
          IN  IsBroadcast(e) =>
                /\ e.ev \in {"message", "typing", "stopTyping", "roomUsers"}
                /\ \E doc \in SessionsOf(c) :
                      /\ doc.room = e.addr.room
                      /\ e.ev \in Signals => e.names = <<doc.username>>
                      /\ (e.ev = "message" /\ e.msgs[1].username # ServerName) =>
                            e.msgs[1].username = doc.username
                /\ e.to \subseteq e.grp
                /\ \A o \in e.to : SessionIn(o, e.addr.room)
                /\ \A o \in Conns :
                      (connected[o] /\ e.addr.room \notin rooms[o] /\ JoinedThroughout(o))
                          => o \notin e.to

(* a chat message and a typing signal of room X went to a connection of X
   while a connection enrolled only in room Y was connected and got neither *)
C21_Witness ==
    \E o \in Conns :
        /\ connected[o] /\ rooms[o] = {RoomY}
        /\ \E i, j \in 1..Len(log) :
              /\ log[i].ev = "message" /\ log[i].msgs[1].username # ServerName
              /\ log[j].ev = "typing"
              /\ log[i].addr.room = RoomX /\ log[j].addr.room = RoomX
              /\ log[i].to # {}
              /\ o \notin log[i].to \cup log[j].to

====
